---------------------------- MODULE Spec2Model ----------------------------
(***************************************************************************)
(* A model of usb_files/audit.py, the laptop auditor: the field parsers    *)
(* that turn probe text into hardware facts, the decision tree that turns  *)
(* the record into a recommendation, the CSV ledger, the drive-wipe flow   *)
(* and the sequencing of main.                                             *)
(*                                                                         *)
(* Python strings are TLA+ strings; a character is a string of length 1.   *)
(* The characters are those of ASCII, the spaces U+0085, U+00A0 and U+1680 *)
(* and the decimal digits of eighteen further scripts; these and the       *)
(* control characters stand in the string literals of the character        *)
(* classes below as themselves.  Where the program changes the case of a   *)
(* string and compares the result with ASCII text, LowerHas and UpperIs    *)
(* give the outcome for every character a string of this module can hold.  *)
(* A Python int that the program holds is a TLA+ integer, below 2^31 in    *)
(* magnitude; a Python float is an IEEE 754 double, computed exactly.      *)
(* A Python dict is a function whose DOMAIN is the set of keys present.    *)
(* A call that may raise returns a record [raised, exc, val].              *)
(***************************************************************************)
EXTENDS Integers, Sequences, FiniteSets, TLC

VARIABLES
    pc,      \* position of main, or of the function being applied
    env,     \* the machine being audited: probe outputs, files, operator answers
    save_dir,\* the directory mount_usb_rw resolved for the ledger
    data,    \* the dict `data` of main / the argument of the function applied
    ret,     \* what the function applied returned (or that it raised)
    ledger,  \* the file audit_master.csv: whether it exists, and its rows
    out      \* the externally visible effects so far, in order

vars == <<pc, env, save_dir, data, ret, ledger, out>>

-----------------------------------------------------------------------------
(* Bounds of the model.                                                    *)

MaxGen == 14        \* cpu generations 0..MaxGen are enumerated
MaxPct == 100       \* battery percentages 0..MaxPct are enumerated
MaxUnits == 4       \* units audited against one ledger file

-----------------------------------------------------------------------------
(* Results of calls.                                                       *)

Ok(v) == [raised |-> FALSE, exc |-> "", val |-> v]
Raise(e) == [raised |-> TRUE, exc |-> e, val |-> ""]
NoRet == [raised |-> FALSE, exc |-> "", val |-> ""]

-----------------------------------------------------------------------------
(* Python str operations.                                                  *)

Ch(s, i) == SubSeq(s, i, i)

\* the decimal digits (Unicode category Nd) that re \d, int() and float() read,
\* each script's 0 to 9 in order: ASCII, then the blocks at U+06F0, U+07C0,
\* U+09E6, U+0AE6, U+0BE6, U+0CE6, U+0DE6, U+0ED0, U+1090, U+17E0, U+19D0,
\* U+1A80, U+1A90, U+1BB0, U+A8D0, U+A9D0, U+A9F0, U+ABF0
DigitRows ==
    <<"0123456789", "۰۱۲۳۴۵۶۷۸۹", "߀߁߂߃߄߅߆߇߈߉", "০১২৩৪৫৬৭৮৯",
      "૦૧૨૩૪૫૬૭૮૯", "௦௧௨௩௪௫௬௭௮௯", "೦೧೨೩೪೫೬೭೮೯", "෦෧෨෩෪෫෬෭෮෯",
      "໐໑໒໓໔໕໖໗໘໙", "႐႑႒႓႔႕႖႗႘႙", "០១២៣៤៥៦៧៨៩", "᧐᧑᧒᧓᧔᧕᧖᧗᧘᧙",
      "᪀᪁᪂᪃᪄᪅᪆᪇᪈᪉", "᪐᪑᪒᪓᪔᪕᪖᪗᪘᪙", "᮰᮱᮲᮳᮴᮵᮶᮷᮸᮹", "꣐꣑꣒꣓꣔꣕꣖꣗꣘꣙",
      "꧐꧑꧒꧓꧔꧕꧖꧗꧘꧙", "꧰꧱꧲꧳꧴꧵꧶꧷꧸꧹", "꯰꯱꯲꯳꯴꯵꯶꯷꯸꯹">>

Digits == {SubSeq(DigitRows[r], k, k) : r \in 1..Len(DigitRows), k \in 1..10}

\* str.isspace(), the class of str.strip(), str.split() and re \s: space, \t,
\* \n, \r, \f, then U+000B, U+001C, U+001D, U+001E, U+001F, U+0085, U+00A0,
\* U+1680
Whitespace ==
    {" ", "\t", "\n", "\r", "\f", "", "", "", "", "", "", " ",
     " "}

\* the whitespace int() skips around a number: that of C isspace() and the
\* spaces outside ASCII; U+001C..U+001F are not among them
NumSpace == {" ", "\t", "\n", "\r", "\f", "", "", " ", " "}

\* the characters str.splitlines() ends a line at: \n, \r, \f, then U+000B,
\* U+001C, U+001D, U+001E, U+0085
LineBreaks == {"\n", "\r", "\f", "", "", "", "", ""}

IsDigit(c) == c \in Digits
IsSpace(c) == c \in Whitespace

\* the value of a decimal digit
DigitVal(c) ==
    CHOOSE d \in 0..9 : \E r \in 1..Len(DigitRows) : Ch(DigitRows[r], d + 1) = c

DigitCh(d) ==
    CASE d = 0 -> "0" [] d = 1 -> "1" [] d = 2 -> "2" [] d = 3 -> "3"
      [] d = 4 -> "4" [] d = 5 -> "5" [] d = 6 -> "6" [] d = 7 -> "7"
      [] d = 8 -> "8" [] d = 9 -> "9"

\* s[i:] (1-based i)
From(s, i) == SubSeq(s, i, Len(s))

\* s.startswith(p) at position i
MatchAt(s, p, i) ==
    /\ i >= 1
    /\ i + Len(p) - 1 <= Len(s)
    /\ SubSeq(s, i, i + Len(p) - 1) = p

StartsWith(s, p) == MatchAt(s, p, 1)

\* p in s
Contains(s, p) == \E i \in 1..(Len(s) - Len(p) + 1) : MatchAt(s, p, i)

\* s.find(p), 1-based; 0 when absent
Find(s, p) ==
    IF Contains(s, p)
    THEN CHOOSE i \in 1..(Len(s) - Len(p) + 1) :
            /\ MatchAt(s, p, i)
            /\ \A j \in 1..(i - 1) : ~MatchAt(s, p, j)
    ELSE 0

\* the positions of s holding a character that is not whitespace
Inked(s) == {i \in 1..Len(s) : ~IsSpace(Ch(s, i))}

LStrip(s) ==
    IF Inked(s) = {} THEN ""
    ELSE From(s, CHOOSE i \in Inked(s) : \A j \in Inked(s) : i <= j)

RStrip(s) ==
    IF Inked(s) = {} THEN ""
    ELSE SubSeq(s, 1, CHOOSE i \in Inked(s) : \A j \in Inked(s) : i >= j)

\* s.strip()
Strip(s) == RStrip(LStrip(s))

\* s.split(sep, 1)
SplitOnce(s, sep) ==
    LET i == Find(s, sep) IN
    IF i = 0 THEN <<s>>
    ELSE <<SubSeq(s, 1, i - 1), From(s, i + Len(sep))>>

\* the position of the first line break of s; 0 when it holds none
FirstBreak(s) ==
    IF \A i \in 1..Len(s) : Ch(s, i) \notin LineBreaks THEN 0
    ELSE CHOOSE i \in 1..Len(s) :
            /\ Ch(s, i) \in LineBreaks
            /\ \A j \in 1..(i - 1) : Ch(s, j) \notin LineBreaks

\* s.splitlines(): the lines of s, without a last empty line; i is the
\* position of the first line break of s, and "\r\n" is one break
RECURSIVE SplitLines(_)
SplitAt(s, i) ==
    IF i = 0 THEN <<s>>
    ELSE <<SubSeq(s, 1, i - 1)>>
            \o SplitLines(IF MatchAt(s, "\r\n", i)
                          THEN From(s, i + 2) ELSE From(s, i + 1))

SplitLines(s) == IF s = "" THEN <<>> ELSE SplitAt(s, FirstBreak(s))

\* the length of the run of characters satisfying the set cs, from position i
RunLen(s, i, cs) ==
    IF i > Len(s) THEN 0
    ELSE CHOOSE k \in 0..(Len(s) - i + 1) :
            /\ \A j \in i..(i + k - 1) : Ch(s, j) \in cs
            /\ (i + k > Len(s) \/ Ch(s, i + k) \notin cs)

\* s.split(): the whitespace-separated words of s
RECURSIVE Words(_)
Words(s) ==
    LET t == LStrip(s) IN
    IF t = "" THEN <<>>
    ELSE LET k == CHOOSE k \in 1..Len(t) :
                     /\ \A j \in 1..k : ~IsSpace(Ch(t, j))
                     /\ (k = Len(t) \/ IsSpace(Ch(t, k + 1)))
         IN <<SubSeq(t, 1, k)>> \o Words(From(t, k + 1))

\* sub in s.lower(), for a sub of ASCII characters, as "nvidia", "amd" and
\* "radeon" are.  str.lower() turns every character that a string of this
\* module can hold into one character: an ASCII capital into its small letter,
\* every other ASCII character into itself, and a character outside ASCII into
\* a character outside ASCII, which no character of sub equals.
LowerHas(s, sub) ==
    LET small == "abcdefghijklmnopqrstuvwxyz"
        capital == "ABCDEFGHIJKLMNOPQRSTUVWXYZ"
        lowers(c, d) == \/ c = d /\ \A k \in 1..26 : c # Ch(capital, k)
                        \/ \E k \in 1..26 : c = Ch(capital, k) /\ d = Ch(small, k)
    IN \E i \in 0..(Len(s) - Len(sub)) :
          \A j \in 1..Len(sub) : lowers(Ch(s, i + j), Ch(sub, j))

\* s.upper() == key, for a key of ASCII characters, as "Y", "CONFIRM" and the
\* keys of the options are.  str.upper() turns a small ASCII letter into its
\* capital, every other ASCII character into itself, "ß" into "SS", and every
\* other character outside ASCII that a string of this module can hold into a
\* string with a character outside ASCII in it, which no key equals.  The
\* other characters that str.upper() turns into ASCII letters, U+0131, U+017F
\* and the ligatures U+FB00 to U+FB06, no string of this module can hold: an
\* answer spelt with one of them is outside what is checked here.
RECURSIVE UpperIs(_, _)
UpperIs(s, key) ==
    LET small == "abcdefghijklmnopqrstuvwxyz"
        capital == "ABCDEFGHIJKLMNOPQRSTUVWXYZ"
        uppers(c, d) == \/ c = d /\ \A k \in 1..26 : c # Ch(small, k)
                        \/ \E k \in 1..26 : c = Ch(small, k) /\ d = Ch(capital, k)
    IN IF s = "" THEN key = ""
       ELSE IF Ch(s, 1) = "ß"
       THEN StartsWith(key, "SS") /\ UpperIs(From(s, 2), From(key, 3))
       ELSE /\ key # ""
            /\ uppers(Ch(s, 1), Ch(key, 1))
            /\ UpperIs(From(s, 2), From(key, 2))

\* the number a string of digits writes
RECURSIVE DigitsVal(_)
DigitsVal(s) ==
    IF s = "" THEN 0
    ELSE DigitsVal(SubSeq(s, 1, Len(s) - 1)) * 10 + DigitVal(Ch(s, Len(s)))

\* str(n) for an integer n
RECURSIVE NatStr(_)
NatStr(n) == IF n < 10 THEN DigitCh(n) ELSE NatStr(n \div 10) \o DigitCh(n % 10)

IntStr(n) == IF n < 0 THEN "-" \o NatStr(-n) ELSE NatStr(n)

\* s without its underscores
RECURSIVE DropUnderscores(_)
DropUnderscores(s) ==
    IF Len(s) <= 1 THEN (IF s = "_" THEN "" ELSE s)
    ELSE DropUnderscores(SubSeq(s, 1, Len(s) \div 2))
            \o DropUnderscores(From(s, Len(s) \div 2 + 1))

\* d.get(k, default)
Get(d, k, default) == IF k \in DOMAIN d THEN d[k] ELSE default

\* d with d[k] = v
Put(d, k, v) == [x \in DOMAIN d \cup {k} |-> IF x = k THEN v ELSE d[x]]

\* d.update(e)
Update(d, e) == [x \in DOMAIN d \cup DOMAIN e |-> IF x \in DOMAIN e THEN e[x] ELSE d[x]]

-----------------------------------------------------------------------------
(* Probes: a command's captured stdout, or a file's text, or a failure.    *)

Text(t) == [ok |-> TRUE, text |-> t]
Failed == [ok |-> FALSE, text |-> ""]

\* run(cmd): the stripped stdout, or "" on any failure
run(p) == IF p.ok THEN Strip(p.text) ELSE ""

\* read_file(path): the stripped text, or "" on any failure
read_file(f) == IF f.ok THEN Strip(f.text) ELSE ""

-----------------------------------------------------------------------------
(* Python int and float arithmetic.  A Python int is unbounded and a float *)
(* is an IEEE 754 double; both are computed here on naturals written as    *)
(* sequences of limbs, least significant first, with no leading zero limb. *)
(* A positive float is [m, e]: the number m * 2^e with m below 2^54.       *)

Limb == 2^27

RECURSIVE BigNorm(_)
BigNorm(x) ==
    IF x # <<>> /\ x[Len(x)] = 0 THEN BigNorm(SubSeq(x, 1, Len(x) - 1)) ELSE x

\* x * k + c for a small k (k <= 15) and a carry c below Limb
RECURSIVE BigMulAddC(_, _, _)
BigMulAddC(x, k, c) ==
    IF x = <<>> THEN (IF c = 0 THEN <<>> ELSE <<c>>)
    ELSE LET t == x[1] * k + c IN
         <<t % Limb>> \o BigMulAddC(Tail(x), k, t \div Limb)

BigMulAdd(x, k, c) == BigNorm(BigMulAddC(x, k, c))

\* x - y for x >= y, with a borrow b
RECURSIVE BigSubB(_, _, _)
BigSubB(x, y, b) ==
    IF x = <<>> THEN <<>>
    ELSE LET yy == IF y = <<>> THEN 0 ELSE y[1]
             t == x[1] - yy - b
         IN <<IF t < 0 THEN t + Limb ELSE t>>
              \o BigSubB(Tail(x), IF y = <<>> THEN <<>> ELSE Tail(y),
                         IF t < 0 THEN 1 ELSE 0)

BigSub(x, y) == BigNorm(BigSubB(x, y, 0))

\* -1, 0 or 1 as x is below, equal to or above y
RECURSIVE BigCmp(_, _)
BigCmp(x, y) ==
    IF Len(x) # Len(y) THEN (IF Len(x) < Len(y) THEN -1 ELSE 1)
    ELSE IF x = <<>> THEN 0
    ELSE IF x[Len(x)] # y[Len(y)] THEN (IF x[Len(x)] < y[Len(y)] THEN -1 ELSE 1)
    ELSE BigCmp(SubSeq(x, 1, Len(x) - 1), SubSeq(y, 1, Len(y) - 1))

\* x * 2^n
RECURSIVE BigShl(_, _)
BigShl(x, n) ==
    IF n = 0 \/ x = <<>> THEN x
    ELSE IF n >= 27 THEN <<0>> \o BigShl(x, n - 27)
    ELSE IF n >= 3 THEN BigShl(BigMulAdd(x, 8, 0), n - 3)
    ELSE BigShl(BigMulAdd(x, 2, 0), n - 1)

\* <<x div k, x mod k>> for a small k (k <= 15)
RECURSIVE BigDivSmallR(_, _, _)
BigDivSmallR(x, k, r) ==
    IF x = <<>> THEN <<<<>>, r>>
    ELSE LET t == r * Limb + x[Len(x)]
             rest == BigDivSmallR(SubSeq(x, 1, Len(x) - 1), k, t % k)
         IN <<rest[1] \o <<t \div k>>, rest[2]>>

BigDivSmall(x, k) ==
    LET qr == BigDivSmallR(x, k, 0) IN <<BigNorm(qr[1]), qr[2]>>

RECURSIVE NatBitLen(_)
NatBitLen(n) == IF n = 0 THEN 0 ELSE 1 + NatBitLen(n \div 2)

BigBitLen(x) == IF x = <<>> THEN 0 ELSE (Len(x) - 1) * 27 + NatBitLen(x[Len(x)])

BigIsOdd(x) == x # <<>> /\ x[1] % 2 = 1

\* the longest run of digits int() converts (sys.int_info.default_max_str_digits)
MaxStrDigits == 4300

\* int(s) for a string of digits
RECURSIVE BigOfDigits(_)
BigOfDigits(s) ==
    IF s = "" THEN <<>>
    ELSE BigMulAdd(BigOfDigits(SubSeq(s, 1, Len(s) - 1)), 10, DigitVal(Ch(s, Len(s))))

\* str(x)
RECURSIVE BigStr(_)
BigStr(x) ==
    LET qr == BigDivSmall(x, 10) IN
    IF qr[1] = <<>> THEN DigitCh(qr[2]) ELSE BigStr(qr[1]) \o DigitCh(qr[2])

RECURSIVE BigPow10(_)
BigPow10(p) == IF p = 0 THEN <<1>> ELSE BigMulAdd(BigPow10(p - 1), 10, 0)

\* long division in base 16: the quotient q and remainder r < b extended by n
\* more digits; <<quotient, remainder>>
RECURSIVE DivDigits(_, _, _, _)
DivDigits(q, r, b, n) ==
    IF n = 0 THEN <<q, r>>
    ELSE LET prev == DivDigits(q, r, b, n - 1) IN
         IF prev[2] = <<>> THEN <<BigMulAdd(BigMulAdd(prev[1], 8, 0), 2, 0), <<>>>>
         ELSE LET r16 == BigMulAdd(BigMulAdd(prev[2], 8, 0), 2, 0)
                  d == CHOOSE d \in 0..15 :
                         /\ BigCmp(BigMulAdd(b, d, 0), r16) <= 0
                         /\ (d = 15 \/ BigCmp(BigMulAdd(b, d + 1, 0), r16) > 0)
              IN <<BigMulAdd(BigMulAdd(prev[1], 8, 0), 2, d),
                   BigSub(r16, BigMulAdd(b, d, 0))>>

\* x div 2^n
RECURSIVE BigShr(_, _)
BigShr(x, n) ==
    IF n = 0 \/ x = <<>> THEN x
    ELSE IF n >= 27 THEN BigShr(Tail(x), n - 27)
    ELSE IF n >= 3 THEN BigShr(BigDivSmall(x, 8)[1], n - 3)
    ELSE BigShr(BigDivSmall(x, 2)[1], n - 1)

\* (x + f) / 2^n to the nearest integer, a tie to the even one, for n >= 1 and
\* a fraction f in [0, 1) that is nonzero exactly when sticky holds
RoundShr(x, n, sticky) ==
    LET h == BigShr(x, n - 1)                  \* down to the first bit dropped
        q == BigShr(h, 1)
        half == BigIsOdd(h)
        more == sticky \/ BigCmp(BigShl(h, n - 1), x) # 0
    IN IF half /\ (more \/ BigIsOdd(q)) THEN BigMulAdd(q, 1, 1) ELSE q

\* float values: None, or the finite float m * 2^e (0.0 has m = <<>> and e = 0;
\* otherwise e >= -1074, and m has 53 bits unless e = -1074), or inf, or nan
None == [none |-> TRUE, is |-> "None", m |-> <<>>, e |-> 0]
Float(m, e) == [none |-> FALSE, is |-> "finite", m |-> m, e |-> IF m = <<>> THEN 0 ELSE e]
Special(is) == [none |-> FALSE, is |-> is, m |-> <<1>>, e |-> 0]

\* a / b * 2^s for naturals a > 0 and b > 0, as the nearest double (ties to
\* even): 53 bits of quotient, fewer below 2^-1022 where doubles are 2^-1074
\* apart, inf from 2^1024 on
FloatDiv(a, b, s) ==
    LET la == BigBitLen(a)
        lb == BigBitLen(b)
        a1 == IF lb > la THEN BigShl(a, lb - la) ELSE a
        b1 == IF la > lb THEN BigShl(b, la - lb) ELSE b
        low == BigCmp(a1, b1) < 0             \* a1 / b1 is in (1/2, 1)
        top == la - lb - (IF low THEN 1 ELSE 0) + s    \* 2^top <= the value < 2 * 2^top
        drop == IF top < -1022 THEN -1022 - top ELSE 0
        a2 == IF low THEN BigMulAdd(a1, 2, 0) ELSE a1
        qr == DivDigits(<<1>>, BigSub(a2, b1), b1, 13)
        twice == BigCmp(BigMulAdd(qr[2], 2, 0), b1)
        q54 == BigMulAdd(qr[1], 2, IF twice >= 0 THEN 1 ELSE 0)
        m == RoundShr(q54, drop + 1, twice # 0 /\ qr[2] # <<>>)
        e == top - 52 + drop
    IN IF BigBitLen(m) + e > 1024 THEN Special("inf")
       ELSE IF BigBitLen(m) = 54 THEN Float(BigShr(m, 1), e + 1)     \* m = 2^53
       ELSE Float(m, e)

\* x / y for floats x >= 0 and y > 0
FloatQuot(x, y) ==
    IF x.is = "nan" \/ y.is = "nan" \/ (x.is = "inf" /\ y.is = "inf") THEN Special("nan")
    ELSE IF x.is = "inf" THEN x
    ELSE IF y.is = "inf" \/ x.m = <<>> THEN Float(<<>>, 0)
    ELSE FloatDiv(x.m, y.m, x.e - y.e)

\* x * 100 for a float x >= 0
FloatTimes100(x) ==
    IF x.is # "finite" \/ x.m = <<>> THEN x
    ELSE FloatDiv(BigMulAdd(BigMulAdd(x.m, 5, 0), 5, 0), <<1>>, x.e + 2)

\* round(x) for a float x >= 0: the nearest integer, a tie to the even one;
\* OverflowError for inf and ValueError for nan
FloatRound(x) ==
    IF x.is = "inf" THEN Raise("OverflowError")
    ELSE IF x.is = "nan" THEN Raise("ValueError")
    ELSE IF x.e >= 0 THEN Ok(BigShl(x.m, x.e))
    ELSE Ok(RoundShr(x.m, -x.e, FALSE))

\* round(a / b) for naturals a and b > 0: the quotient is the nearest double,
\* and OverflowError when that is beyond the doubles
RoundDiv(a, b) == IF a = <<>> THEN Ok(<<>>) ELSE FloatRound(FloatDiv(a, b, 0))

\* the natural x as a number
RECURSIVE BigToNat(_)
BigToNat(x) == IF x = <<>> THEN 0 ELSE x[1] + Limb * BigToNat(Tail(x))

\* the int that round(a / b) gave, negated when a was negative, or the
\* exception of the division
RoundedGb(r, neg) ==
    IF r.raised THEN r ELSE Ok(IF neg THEN -BigToNat(r.val) ELSE BigToNat(r.val))

\* s without the whitespace int() skips at its two ends
NumStrip(s) ==
    IF \A i \in 1..Len(s) : Ch(s, i) \in NumSpace THEN ""
    ELSE SubSeq(s,
                CHOOSE i \in 1..Len(s) :
                    Ch(s, i) \notin NumSpace /\ \A j \in 1..(i - 1) : Ch(s, j) \in NumSpace,
                CHOOSE i \in 1..Len(s) :
                    Ch(s, i) \notin NumSpace /\ \A j \in (i + 1)..Len(s) : Ch(s, j) \in NumSpace)

\* int(s) for a str s: surrounding whitespace, an optional sign, decimal digits
\* with single underscores between them, MaxStrDigits digits at most; anything
\* else raises ValueError.  The value is [neg, mag].
PyIntParse(s) ==
    LET t == NumStrip(s)
        signed == t # "" /\ Ch(t, 1) \in {"+", "-"}
        body == IF signed THEN Tail(t) ELSE t
        wellFormed ==
            /\ body # ""
            /\ \A i \in 1..Len(body) : Ch(body, i) \in Digits \cup {"_"}
            /\ IsDigit(Ch(body, 1))
            /\ IsDigit(Ch(body, Len(body)))
            /\ \A i \in 1..(Len(body) - 1) :
                    ~(Ch(body, i) = "_" /\ Ch(body, i + 1) = "_")
    IN IF ~wellFormed \/ Len(DropUnderscores(body)) > MaxStrDigits THEN Raise("ValueError")
       ELSE Ok([neg |-> signed /\ Ch(t, 1) = "-",
                mag |-> BigOfDigits(DropUnderscores(body))])

\* int(s) where the value is below 2^31 in magnitude
PyInt(s) ==
    LET r == PyIntParse(s) IN
    IF r.raised THEN r
    ELSE Ok(IF r.val.neg THEN -BigToNat(r.val.mag) ELSE BigToNat(r.val.mag))

\* bool(x) for None or a float
Truthy(x) == ~x.none /\ (x.is # "finite" \/ x.m # <<>>)

\* float(tok) for a run tok of digits and dots: one dot at most and a digit at
\* least, else ValueError; the nearest double to the decimal written
PyFloat(tok) ==
    LET dots == {i \in 1..Len(tok) : Ch(tok, i) = "."}
        nd == Cardinality(dots)
        dot == IF nd = 0 THEN Len(tok) + 1 ELSE CHOOSE i \in dots : TRUE
        digs == SubSeq(tok, 1, dot - 1) \o SubSeq(tok, dot + 1, Len(tok))
        p == IF nd = 0 THEN 0 ELSE Len(tok) - dot
        a == BigOfDigits(digs)
    IN IF nd > 1 \/ digs = "" THEN Raise("ValueError")
       ELSE IF a = <<>> THEN Ok(Float(<<>>, 0))
       ELSE Ok(FloatDiv(a, BigPow10(p), 0))

-----------------------------------------------------------------------------
(* PHASE 1: the field parsers.                                             *)

get_service_tag(e) == LET t == run(e.serial) IN IF t # "" THEN t ELSE "N/A"

get_model_name(e) == LET t == run(e.product) IN IF t # "" THEN t ELSE "N/A"

\* the loop of get_cpu_info from line i on, with model and cores so far
RECURSIVE CpuInfoLoop(_, _, _, _)
CpuInfoLoop(lines, i, model, cores) ==
    IF i > Len(lines) THEN Ok(<<model, cores>>)
    ELSE LET line == lines[i]
             takes == StartsWith(line, "model name") /\ model = "N/A"
             parts == SplitOnce(line, ":")
             cores2 == IF StartsWith(line, "processor") THEN cores + 1 ELSE cores
         IN IF takes /\ Len(parts) < 2 THEN Raise("IndexError")
            ELSE CpuInfoLoop(lines, i + 1,
                             IF takes THEN Strip(parts[2]) ELSE model, cores2)

get_cpu_info(e) == CpuInfoLoop(SplitLines(read_file(e.cpuinfo)), 1, "N/A", 0)

\* re.findall(r"\d+", s)[0]: the first run of digits of s, "" when there is none
FirstDigitRun(s) ==
    LET starts == {i \in 1..Len(s) : IsDigit(Ch(s, i))} IN
    IF starts = {} THEN ""
    ELSE LET i == CHOOSE i \in starts : \A j \in starts : i <= j
         IN SubSeq(s, i, i + RunLen(s, i, Digits) - 1)

get_ram_total_gb(e) ==
    LET lines == SplitLines(read_file(e.meminfo))
        hits == {i \in 1..Len(lines) : StartsWith(lines[i], "MemTotal")}
    IN IF hits = {} THEN Ok(0)
       ELSE LET line == lines[CHOOSE i \in hits : \A j \in hits : i <= j]
                num == FirstDigitRun(line)
            IN IF num = "" THEN Raise("IndexError")
               ELSE IF Len(num) > MaxStrDigits THEN Raise("ValueError")
               ELSE RoundedGb(RoundDiv(BigOfDigits(num), <<1048576>>), FALSE)

get_ram_type(e) ==
    LET lines == SplitLines(run(e.dmi_memory))
        hits == {i \in 1..Len(lines) :
                    Contains(lines[i], "Type:") /\ Contains(lines[i], "DDR")}
    IN IF hits = {} THEN Ok("N/A")
       ELSE LET line == lines[CHOOSE i \in hits : \A j \in hits : i <= j]
            IN Ok(Strip(SplitOnce(line, ":")[2]))

get_discrete_gpu(e) ==
    LET lines == SplitLines(run(e.lspci))
        hits == {i \in 1..Len(lines) :
                    \/ LowerHas(lines[i], "nvidia")
                    \/ (LowerHas(lines[i], "amd") /\ LowerHas(lines[i], "radeon"))}
    IN IF hits = {} THEN Ok("None")
       ELSE LET line == lines[CHOOSE i \in hits : \A j \in hits : i <= j]
                parts == SplitOnce(line, ": ")
            IN Ok(IF Len(parts) > 1 THEN Strip(parts[2]) ELSE "Discrete GPU")

\* the device a /proc/mounts line names when it mounts the live medium, or ""
BootMounts == {"/run/archiso/bootmnt", "/run/initramfs/live", "/cdrom", "/live/image"}

\* the first element of seq satisfying the test, by index; 0 when none does
FirstIndex(n, Test(_)) ==
    IF \E i \in 1..n : Test(i)
    THEN CHOOSE i \in 1..n : Test(i) /\ \A j \in 1..(i - 1) : ~Test(j)
    ELSE 0

find_boot_usb_partition(e) ==
    LET mounts == SplitLines(read_file(e.mounts))
        IsLive(i) == LET parts == Words(mounts[i]) IN
                     Len(parts) >= 2 /\ parts[2] \in BootMounts
        m == FirstIndex(Len(mounts), IsLive)
        parts == SplitLines(run(e.lsblk_part))
        HasCols(i) == Words(parts[i]) # <<>>
        r == FirstIndex(Len(parts), HasCols)
    IN IF m # 0 THEN Words(mounts[m])[1]
       ELSE IF r # 0 THEN Words(parts[r])[1]
       ELSE ""

\* an effect the program has on the machine or its operator
Event(kind, arg) == [kind |-> kind, arg |-> arg]

ARCHISO_MNT == "/run/archiso/bootmnt"
USB_MOUNT_POINT == "/mnt/usb_data"

\* strategy 2 and the fallback of mount_usb_rw; cmds are the commands issued so
\* far, rc2 and rc3 the exit codes of the remount and of the fresh mount
MountPartition(partition, makedirs, rc2, rc3, cmds) ==
    IF partition = "" THEN [raised |-> FALSE, exc |-> "", dir |-> "/tmp", cmds |-> cmds]
    ELSE IF makedirs # ""
    THEN [raised |-> TRUE, exc |-> makedirs, dir |-> "", cmds |-> cmds]
    ELSE IF rc2 = 0
    THEN [raised |-> FALSE, exc |-> "", dir |-> USB_MOUNT_POINT,
          cmds |-> cmds \o <<Event("system", "mount -o remount,rw " \o partition \o " "
                                              \o USB_MOUNT_POINT \o " 2>/dev/null")>>]
    ELSE [raised |-> FALSE, exc |-> "",
          dir |-> IF rc3 = 0 THEN USB_MOUNT_POINT ELSE "/tmp",
          cmds |-> cmds \o <<Event("system", "mount -o remount,rw " \o partition \o " "
                                              \o USB_MOUNT_POINT \o " 2>/dev/null"),
                             Event("system", "mount -o rw " \o partition \o " "
                                              \o USB_MOUNT_POINT \o " 2>/dev/null")>>]

\* mount_usb_rw: the directory to save to, or the exception raised, and the
\* mount commands issued; ismount is os.path.ismount(ARCHISO_MNT), rc1 the exit
\* code of its remount
mount_usb_rw(e, ismount, rc1, makedirs, rc2, rc3) ==
    IF ismount /\ rc1 = 0
    THEN [raised |-> FALSE, exc |-> "", dir |-> ARCHISO_MNT,
          cmds |-> <<Event("system", "mount -o remount,rw " \o ARCHISO_MNT \o " 2>/dev/null")>>]
    ELSE MountPartition(find_boot_usb_partition(e), makedirs, rc2, rc3,
                        IF ismount
                        THEN <<Event("system", "mount -o remount,rw " \o ARCHISO_MNT \o " 2>/dev/null")>>
                        ELSE <<>>)

\* sync_and_unmount
sync_and_unmount == <<Event("system", "sync")>>

\* re.sub(r"p?\d+$", "", s): s without its final run of digits and the "p" before it
StripPartition(s) ==
    LET n == Len(s)
        k == CHOOSE k \in 0..n :
                /\ \A i \in (n - k + 1)..n : IsDigit(Ch(s, i))
                /\ (k = n \/ ~IsDigit(Ch(s, n - k)))
    IN IF k = 0 THEN s
       ELSE IF k < n /\ Ch(s, n - k) = "p" THEN SubSeq(s, 1, n - k - 1)
       ELSE SubSeq(s, 1, n - k)

boot_parent(e) ==
    LET boot_usb == find_boot_usb_partition(e) IN
    IF boot_usb # "" THEN StripPartition(boot_usb) ELSE ""

get_primary_disk(e) ==
    LET parent == boot_parent(e)
        lines == SplitLines(run(e.lsblk_disks))
        Eligible(i) == LET cols == Words(lines[i]) IN
                       /\ Len(cols) >= 3 /\ cols[2] = "disk" /\ cols[3] = "0"
                       /\ cols[1] # parent
        d == FirstIndex(Len(lines), Eligible)
    IN IF d # 0 THEN Words(lines[d])[1]
       ELSE IF e.nvme_exists THEN "/dev/nvme0n1"
       ELSE IF e.sda_exists THEN "/dev/sda"
       ELSE ""

\* round(int(size_bytes) / 1_000_000_000), 0 when int() raises ValueError; the
\* OverflowError of the division is not caught
CapacityGb(size) ==
    IF size.raised THEN Ok(0)
    ELSE RoundedGb(RoundDiv(size.val.mag, BigPow10(9)), size.val.neg)

\* the tuple get_storage_info returns, or the exception of its capacity
StorageTuple(disk, capacity_gb, smart) ==
    IF capacity_gb.raised THEN capacity_gb
    ELSE Ok(<<IF Contains(disk, "nvme") THEN "NVMe" ELSE "SATA", capacity_gb.val, smart>>)

SmartStatus(smart_out) ==
    IF Contains(smart_out, "PASSED") THEN "PASSED"
    ELSE IF Contains(smart_out, "FAILED") THEN "FAILED"
    ELSE "N/A"

\* the commands get_storage_info runs against the disk
StorageProbes(disk) ==
    IF disk = "" THEN <<>>
    ELSE <<Event("run", "lsblk -bdn -o SIZE " \o disk),
           Event("run", "smartctl -H " \o disk)>>

\* a get_storage_info that probes whatever it is given
StorageInfoUnguarded(disk, e) ==
    StorageTuple(disk, CapacityGb(PyIntParse(run(e.size))), SmartStatus(run(e.smart)))

get_storage_info(disk, e) ==
    IF disk = "" THEN Ok(<<"N/A", 0, "N/A">>)
    ELSE StorageTuple(disk, CapacityGb(PyIntParse(run(e.size))), SmartStatus(run(e.smart)))

\* re.findall(r"[\d.]+", s)[0]: the first run of digits and dots of s, or ""
FirstNumRun(s) ==
    LET cs == Digits \cup {"."}
        starts == {i \in 1..Len(s) : Ch(s, i) \in cs}
    IN IF starts = {} THEN ""
       ELSE LET i == CHOOSE i \in starts : \A j \in starts : i <= j
            IN SubSeq(s, i, i + RunLen(s, i, cs) - 1)

\* the loop of get_battery_health from line i on, with full and design so far
RECURSIVE BatteryLoop(_, _, _, _)

\* float(nums[0]) assigned to full or to design, or raising out of the loop
BatteryTake(lines, i, full, design, is_full, is_design, f) ==
    IF (is_full \/ is_design) /\ f.raised THEN Raise("ValueError")
    ELSE BatteryLoop(lines, i + 1,
                     IF is_full THEN f.val ELSE full,
                     IF is_design THEN f.val ELSE design)

\* one line of the loop: line_s is the stripped line, num is nums[0] or ""
BatteryLine(lines, i, full, design, line_s, num) ==
    BatteryTake(lines, i, full, design,
                /\ Contains(line_s, "energy-full:") /\ ~Contains(line_s, "design")
                /\ num # "",
                Contains(line_s, "energy-full-design:") /\ num # "",
                PyFloat(num))

BatteryLoop(lines, i, full, design) ==
    IF i > Len(lines) THEN Ok(<<full, design>>)
    ELSE BatteryLine(lines, i, full, design,
                     Strip(lines[i]), FirstNumRun(Strip(lines[i])))

\* str(round((full / design) * 100)), or the exception of round()
HealthPct(full, design) ==
    LET r == FloatRound(FloatTimes100(FloatQuot(full, design))) IN
    IF r.raised THEN r ELSE Ok(BigStr(r.val))

\* after the loop: an exception passes through; both values truthy (design > 0
\* then holds as well) give the percentage
BatteryReturn(r) ==
    IF r.raised THEN r
    ELSE IF Truthy(r.val[1]) /\ Truthy(r.val[2])
    THEN HealthPct(r.val[1], r.val[2])
    ELSE Ok("N/A")

get_battery_health(e) ==
    BatteryReturn(BatteryLoop(SplitLines(run(e.upower)), 1, None, None))

\* re.search(r"(\d{3,5})x(\d{3,5})", line): <<w, h>> of the leftmost match, or <<>>
ModeMatch(line) ==
    LET ok(i, n) ==
            /\ i + n + 3 <= Len(line)
            /\ \A k \in i..(i + n - 1) : IsDigit(Ch(line, k))
            /\ Ch(line, i + n) = "x"
            /\ \A k \in (i + n + 1)..(i + n + 3) : IsDigit(Ch(line, k))
        hits == {i \in 1..Len(line) : \E n \in 3..5 : ok(i, n)}
    IN IF hits = {} THEN <<>>
       ELSE LET i == CHOOSE i \in hits : \A j \in hits : i <= j
                n == CHOOSE n \in 3..5 : ok(i, n)
                hn == IF RunLen(line, i + n + 1, Digits) > 5 THEN 5
                      ELSE RunLen(line, i + n + 1, Digits)
            IN <<DigitsVal(SubSeq(line, i, i + n - 1)),
                 DigitsVal(SubSeq(line, i + n + 1, i + n + hn))>>

\* the loop over the lines of one listing, keeping the largest area seen; the
\* areas w * h of numbers of five digits are compared as their thousands
\* (hi) and their rest (lo)
RECURSIVE MaxMode(_, _, _)
MaxMode(lines, i, best) ==
    IF i > Len(lines) THEN best
    ELSE LET m == ModeMatch(lines[i])
             hi(w, h) == (w \div 1000) * h + ((w % 1000) * h) \div 1000
             lo(w, h) == ((w % 1000) * h) % 1000
             larger(w, h, max_w, max_h) ==
                 \/ hi(w, h) > hi(max_w, max_h)
                 \/ hi(w, h) = hi(max_w, max_h) /\ lo(w, h) > lo(max_w, max_h)
         IN MaxMode(lines, i + 1,
                    IF m # <<>> /\ larger(m[1], m[2], best[1], best[2]) THEN m ELSE best)

\* the loop over the modes files of /sys/class/drm
RECURSIVE MaxModeFiles(_, _, _)
MaxModeFiles(files, i, best) ==
    IF i > Len(files) THEN best
    ELSE MaxModeFiles(files, i + 1,
                      MaxMode(SplitLines(read_file(files[i])), 1, best))

ResolutionClass(w, h) == IF w > 2500 THEN "4K/Retina Class" ELSE "Standard"

get_screen_resolution(e) ==
    LET x == MaxMode(SplitLines(run(e.xrandr)), 1, <<0, 0>>)
        best == IF x[1] = 0 /\ e.drm_exists THEN MaxModeFiles(e.drm_modes, 1, x)
                ELSE x
    IN IF best[1] = 0 THEN Ok(<<"N/A", "N/A">>)
       ELSE Ok(<<IntStr(best[1]) \o "x" \o IntStr(best[2]),
                 ResolutionClass(best[1], best[2])>>)

\* re.search(r"i[3579]-(\d{2,5})", s): the group of the leftmost match, or ""
IntelModelNum(s) ==
    LET ok(i) ==
            /\ i + 4 <= Len(s)
            /\ Ch(s, i) = "i"
            /\ Ch(s, i + 1) \in {"3", "5", "7", "9"}
            /\ Ch(s, i + 2) = "-"
            /\ RunLen(s, i + 3, Digits) >= 2
        hits == {i \in 1..Len(s) : ok(i)}
    IN IF hits = {} THEN ""
       ELSE LET i == CHOOSE i \in hits : \A j \in hits : i <= j
                n == IF RunLen(s, i + 3, Digits) > 5 THEN 5
                     ELSE RunLen(s, i + 3, Digits)
            IN SubSeq(s, i + 3, i + 2 + n)

\* re.search(r"Ryzen\s+\d\s+(\d)", s): the group of the leftmost match, or ""
RyzenSeries(s) ==
    LET at(i) ==
            LET w1 == RunLen(s, i + 5, Whitespace)
                w2 == RunLen(s, i + 6 + w1, Whitespace)
            IN IF /\ MatchAt(s, "Ryzen", i)
                  /\ w1 >= 1
                  /\ i + 5 + w1 <= Len(s) /\ IsDigit(Ch(s, i + 5 + w1))
                  /\ w2 >= 1
                  /\ i + 6 + w1 + w2 <= Len(s) /\ IsDigit(Ch(s, i + 6 + w1 + w2))
               THEN Ch(s, i + 6 + w1 + w2) ELSE ""
        hits == {i \in 1..Len(s) : at(i) # ""}
    IN IF hits = {} THEN ""
       ELSE at(CHOOSE i \in hits : \A j \in hits : i <= j)

parse_cpu_generation(cpu_model) ==
    LET model_num == IntelModelNum(cpu_model)
        series == RyzenSeries(cpu_model)
    IN IF Len(model_num) = 4 THEN DigitsVal(SubSeq(model_num, 1, 1))
       ELSE IF Len(model_num) = 5 THEN DigitsVal(SubSeq(model_num, 1, 2))
       ELSE IF series # "" THEN DigitsVal(series)
       ELSE 0

\* run_hardware_scan, step by step: d is the dict `data` so far and cmds the
\* disk commands run so far; a step that raises ends the scan.  The result
\* is [raised, exc, val, cmds] with val the dict returned.
ScanDone(r, cmds) == [raised |-> r.raised, exc |-> r.exc, val |-> r.val, cmds |-> cmds]

Scan8(e, d, cmds) ==
    ScanDone(Ok(Put(d, "_cpu_gen", parse_cpu_generation(d.cpu))), cmds)

Scan7(e, d, cmds, res) ==
    Scan8(e, Update(d, [resolution |-> res.val[1], resolution_class |-> res.val[2]]),
          cmds)

Scan6(e, d, cmds, gpu) ==
    Scan7(e, Put(d, "gpu", gpu.val), cmds, get_screen_resolution(e))

Scan5(e, d, cmds, batt) ==
    IF batt.raised THEN ScanDone(batt, cmds)
    ELSE Scan6(e, Put(d, "battery_pct", batt.val), cmds, get_discrete_gpu(e))

Scan4Storage(e, d, cmds, disk, info) ==
    IF info.raised THEN ScanDone(info, cmds \o SubSeq(StorageProbes(disk), 1, 1))
    ELSE Scan5(e, Update(d, [storage_type |-> info.val[1], storage_gb |-> info.val[2],
                             smart_status |-> info.val[3], _disk |-> disk]),
               cmds \o StorageProbes(disk), get_battery_health(e))

Scan4(e, d, cmds, disk) ==
    Scan4Storage(e, d, cmds, disk, get_storage_info(disk, e))

Scan3(e, d, cmds, ram) ==
    IF ram.raised THEN ScanDone(ram, cmds)
    ELSE Scan4(e, Update(d, [ram_gb |-> ram.val, ram_type |-> get_ram_type(e).val]),
               cmds, get_primary_disk(e))

Scan2(e, d, cmds, cpu) ==
    IF cpu.raised THEN ScanDone(cpu, cmds)
    ELSE Scan3(e, Update(d, [cpu |-> cpu.val[1], cores |-> cpu.val[2]]),
               cmds, get_ram_total_gb(e))

run_hardware_scan(e) ==
    Scan2(e, [service_tag |-> get_service_tag(e), model |-> get_model_name(e)],
          <<>>, get_cpu_info(e))

-----------------------------------------------------------------------------
(* PHASE 2: the interactive grading.                                       *)

SCREEN_OPTIONS == {"A", "B", "C"}
CHASSIS_OPTIONS == {"A", "B", "C"}
CHARGER_OPTIONS == {"Y", "N"}

\* one turn of the loop of prompt_choice on the line typed: the key chosen,
\* or "" when the answer is invalid and the question is asked again
prompt_choice(line, options) ==
    IF \E key \in options : UpperIs(Strip(line), key)
    THEN CHOOSE key \in options : UpperIs(Strip(line), key)
    ELSE ""

-----------------------------------------------------------------------------
(* PHASE 3: the value logic.                                               *)

PARTS_REPAIR == "PARTS/REPAIR"
HIGH_VALUE == "HIGH VALUE (Gaming/Creator)"
STANDARD_RESALE == "Standard Resale"
BAD_BATTERY_DISCOUNT == "Bad Battery (Discount)"

\* try: batt = int(data.get("battery_pct", "0"))  except ValueError: batt = 0
BattUnknownAsFull(d) ==
    LET r == PyInt(Get(d, "battery_pct", "0")) IN
    IF r.raised THEN 100 ELSE r.val
BattOf(d) ==
    LET r == PyInt(Get(d, "battery_pct", "0")) IN
    IF r.raised THEN 0 ELSE r.val

GpuBeforeParts(d) ==
    LET smart == Get(d, "smart_status", "N/A")
        screen == Get(d, "screen_grade", "")
        chassis == Get(d, "chassis_grade", "")
        gpu == Get(d, "gpu", "None")
        cpu_gen == Get(d, "_cpu_gen", 0)
        batt == BattOf(d)
    IN IF gpu # "None" THEN HIGH_VALUE
       ELSE IF smart = "FAILED" \/ screen = "C" \/ chassis = "C" THEN PARTS_REPAIR
       ELSE IF cpu_gen >= 8 /\ batt > 65 THEN STANDARD_RESALE
       ELSE IF batt < 60 THEN BAD_BATTERY_DISCOUNT
       ELSE STANDARD_RESALE
compute_recommendation(d) ==
    LET smart == Get(d, "smart_status", "N/A")
        screen == Get(d, "screen_grade", "")
        chassis == Get(d, "chassis_grade", "")
        gpu == Get(d, "gpu", "None")
        cpu_gen == Get(d, "_cpu_gen", 0)
        batt == BattOf(d)
    IN IF smart = "FAILED" \/ screen = "C" \/ chassis = "C" THEN PARTS_REPAIR
       ELSE IF gpu # "None" THEN HIGH_VALUE
       ELSE IF cpu_gen >= 8 /\ batt > 65 THEN STANDARD_RESALE
       ELSE IF batt < 60 THEN BAD_BATTERY_DISCOUNT
       ELSE STANDARD_RESALE

-----------------------------------------------------------------------------
(* PHASE 4: the CSV export.  The ledger file is the sequence of the lines  *)
(* written to it, each without its line terminator.                        *)

CSV_HEADERS ==
    <<"timestamp", "service_tag", "model", "cpu", "cores",
      "ram_gb", "ram_type", "storage_type", "storage_gb",
      "smart_status", "battery_pct", "gpu", "resolution",
      "resolution_class", "screen_grade", "chassis_grade",
      "charger", "recommendation">>

\* csv.writer with the default dialect: a field holding the delimiter, a quote
\* or a line break is quoted, and its quotes are doubled
RECURSIVE DoubleQuotes(_)
DoubleQuotes(s) ==
    IF Len(s) = 0 THEN ""
    ELSE IF Len(s) = 1 THEN (IF s = "\"" THEN "\"\"" ELSE s)
    ELSE DoubleQuotes(SubSeq(s, 1, Len(s) \div 2))
         \o DoubleQuotes(SubSeq(s, Len(s) \div 2 + 1, Len(s)))

CsvField(s) ==
    IF \E i \in 1..Len(s) : Ch(s, i) \in {",", "\"", "\n", "\r"}
    THEN "\"" \o DoubleQuotes(s) \o "\"" ELSE s

RECURSIVE CsvJoin(_)
CsvJoin(fields) ==
    IF Len(fields) = 1 THEN CsvField(fields[1])
    ELSE CsvJoin(SubSeq(fields, 1, Len(fields) - 1)) \o "," \o CsvField(fields[Len(fields)])

\* the line of a row; a row of one empty field is written as a pair of quotes
CsvLine(fields) == IF fields = <<"">> THEN "\"\"" ELSE CsvJoin(fields)

\* the dict `row` of export_to_csv as the fields of its line, in header order;
\* now is datetime.now() formatted
RowOf(d, now) ==
    <<now,
      Get(d, "service_tag", "N/A"),
      Get(d, "model", "N/A"),
      Get(d, "cpu", "N/A"),
      IntStr(Get(d, "cores", 0)),
      IntStr(Get(d, "ram_gb", 0)),
      Get(d, "ram_type", "N/A"),
      Get(d, "storage_type", "N/A"),
      IntStr(Get(d, "storage_gb", 0)),
      Get(d, "smart_status", "N/A"),
      Get(d, "battery_pct", "N/A"),
      Get(d, "gpu", "None"),
      Get(d, "resolution", "N/A"),
      Get(d, "resolution_class", "N/A"),
      Get(d, "screen_grade", ""),
      Get(d, "chassis_grade", ""),
      Get(d, "charger", ""),
      Get(d, "recommendation", "")>>

\* a writer that writes the header on every call
ExportHeaderAlways(d, file, now) ==
    [exists |-> TRUE,
     rows |-> file.rows \o <<CsvLine(CSV_HEADERS), CsvLine(RowOf(d, now))>>]

\* the file after the call, opened in append mode
export_to_csv(d, file, now) ==
    [exists |-> TRUE,
     rows |-> IF file.exists THEN Append(file.rows, CsvLine(RowOf(d, now)))
              ELSE <<CsvLine(CSV_HEADERS), CsvLine(RowOf(d, now))>>]

\* an offer_wipe that takes the first answer as enough
WipeOnFirstYes(d, line1, line2) ==
    IF Get(d, "_disk", "") = "" THEN <<>>
    ELSE IF ~UpperIs(Strip(line1), "Y") THEN <<Event("input", <<"WIPE DRIVE NOW?", line1>>)>>
    ELSE <<Event("input", <<"WIPE DRIVE NOW?", line1>>),
           Event("input", <<"Type CONFIRM", line2>>),
           Event("system", "nwipe --autonuke --method=zero " \o Get(d, "_disk", ""))>>

\* offer_wipe: the prompts answered and the command issued, in order; line1
\* and line2 are the lines the operator types when asked
offer_wipe(d, line1, line2) ==
    IF Get(d, "_disk", "") = "" THEN <<>>
    ELSE IF ~UpperIs(Strip(line1), "Y")
    THEN <<Event("input", <<"WIPE DRIVE NOW?", line1>>)>>
    ELSE IF ~UpperIs(Strip(line2), "CONFIRM")
    THEN <<Event("input", <<"WIPE DRIVE NOW?", line1>>),
           Event("input", <<"Type CONFIRM", line2>>)>>
    ELSE <<Event("input", <<"WIPE DRIVE NOW?", line1>>),
           Event("input", <<"Type CONFIRM", line2>>),
           Event("system",
                 IF Contains(Get(d, "_disk", ""), "nvme")
                 THEN "blkdiscard -f " \o Get(d, "_disk", "")
                 ELSE "nwipe --autonuke --method=zero " \o Get(d, "_disk", ""))>>

-----------------------------------------------------------------------------
(* The machines, files and answers the specifications start from.          *)

NoEnv == [kind |-> "none"]
NoLedger == [exists |-> FALSE, rows |-> <<>>]

-----------------------------------------------------------------------------
(* SpecClassify: compute_recommendation applied to every record.           *)

InitClassify ==
    /\ pc = "call"
    /\ env = NoEnv
    /\ save_dir = ""
    /\ data \in
          { [smart_status |-> s, screen_grade |-> g, chassis_grade |-> c, gpu |-> u,
             _cpu_gen |-> n, battery_pct |-> b] :
              s \in {"PASSED", "FAILED", "N/A"},
              g \in {"A", "B", "C"}, c \in {"A", "B", "C"},
              u \in {"None", "NVIDIA GeForce RTX 3050"},
              n \in 0..MaxGen,
              b \in {IntStr(k) : k \in 0..MaxPct} \cup {"N/A"} }
    /\ ret = NoRet
    /\ ledger = NoLedger
    /\ out = <<>>

Classify ==
    /\ pc = "call"
    /\ ret' = Ok(compute_recommendation(data))
    /\ pc' = "ret"
    /\ UNCHANGED <<env, save_dir, data, ledger, out>>

SpecClassify == InitClassify /\ [][Classify]_vars

\* the battery percentage of the record, as a number (N/A aside)
PctOf(d) == DigitsVal(d.battery_pct)
Rule1(d) == d.smart_status = "FAILED" \/ d.screen_grade = "C" \/ d.chassis_grade = "C"

\* C1: for every storage health, screen and chassis grade, gpu, cpu generation
\* and battery percentage 0..MaxPct, compute_recommendation returns the label of
\* the first matching rule of the fixed order 1..5; each rule-1 condition alone
\* forces PARTS_REPAIR.
C1_FirstMatchingRule ==
    (pc = "ret" /\ data.battery_pct # "N/A") =>
        /\ ~ret.raised
        /\ ret.val =
             (CASE Rule1(data) -> PARTS_REPAIR
                [] ~Rule1(data) /\ data.gpu # "None" -> HIGH_VALUE
                [] ~Rule1(data) /\ data.gpu = "None"
                     /\ data._cpu_gen >= 8 /\ PctOf(data) > 65 -> STANDARD_RESALE
                [] ~Rule1(data) /\ data.gpu = "None"
                     /\ ~(data._cpu_gen >= 8 /\ PctOf(data) > 65)
                     /\ PctOf(data) < 60 -> BAD_BATTERY_DISCOUNT
                [] OTHER -> STANDARD_RESALE)
        /\ (data.smart_status = "FAILED" => ret.val = PARTS_REPAIR)
        /\ (data.screen_grade = "C" => ret.val = PARTS_REPAIR)
        /\ (data.chassis_grade = "C" => ret.val = PARTS_REPAIR)

\* a gpu is present and only the storage health fails: rule 1 decided
C1_Witness ==
    /\ pc = "ret"
    /\ data.smart_status = "FAILED" /\ data.screen_grade = "A" /\ data.chassis_grade = "A"
    /\ data.gpu # "None" /\ data.battery_pct = "80"
    /\ ret.val = PARTS_REPAIR

\* C2: an undetermined battery ("N/A") never makes the classification fail: it
\* counts as 0, so with no rule-1 condition and no gpu the record is
\* BAD_BATTERY_DISCOUNT for every cpu generation; under the same preconditions a
\* percentage in 60..65 gives STANDARD_RESALE.
C2_UndeterminedBattery ==
    (pc = "ret" /\ ~Rule1(data) /\ data.gpu = "None") =>
        /\ ~ret.raised
        /\ (data.battery_pct = "N/A" => ret.val = BAD_BATTERY_DISCOUNT)
        /\ (data.battery_pct \in {IntStr(n) : n \in 60..65} => ret.val = STANDARD_RESALE)

\* an undetermined battery on a recent cpu was classified
C2_Witness ==
    /\ pc = "ret" /\ ~Rule1(data) /\ data.gpu = "None"
    /\ data.battery_pct = "N/A" /\ data._cpu_gen >= 8
    /\ ret.val = BAD_BATTERY_DISCOUNT

-----------------------------------------------------------------------------
(* SpecCpuGen: parse_cpu_generation applied to CPU model strings.          *)

\* the model strings: a prefix, an Intel family, a model number and a suffix;
\* and strings of other makes
InitCpuGen ==
    /\ pc = "call"
    /\ env = NoEnv
    /\ save_dir = ""
    /\ data \in
          {p \o f \o "-" \o n \o x :
              p \in {"", "Intel(R) Core(TM) "},
              f \in {"i3", "i5", "i7", "i9"},
              n \in {"620", "7200", "8565", "1185", "10210", "11850", "13500", "14700"},
              x \in {"", "U", "H", "G7"}}
          \cup {"Ryzen 7 5800H", "AMD Ryzen 5 3500U", "Ryzen  9  7940HS", "AMD Ryzen7 5800H",
                "Celeron N4000", "Pentium Silver N5000", "N/A", ""}
    /\ ret = NoRet
    /\ ledger = NoLedger
    /\ out = <<>>

ParseCpuGen ==
    /\ pc = "call"
    /\ ret' = Ok(parse_cpu_generation(data))
    /\ pc' = "ret"
    /\ UNCHANGED <<env, save_dir, data, ledger, out>>

SpecCpuGen == InitCpuGen /\ [][ParseCpuGen]_vars

\* the generation the examples give for a CPU model string
ExampleGen(m) ==
    CASE m = "i7-8565U" -> 8
      [] m = "i7-1185G7" -> 11
      [] m = "i5-13500H" -> 13
      [] m = "i7-14700H" -> 14
      [] m = "Ryzen 7 5800H" -> 5
      [] m = "Celeron N4000" -> 0

ExampleCpus == {"i7-8565U", "i7-1185G7", "i5-13500H", "i7-14700H",
                "Ryzen 7 5800H", "Celeron N4000"}

\* C3: parse_cpu_generation maps "i7-8565U" to 8, "i7-1185G7" to 11,
\* "i5-13500H" to 13, "i7-14700H" to 14, "Ryzen 7 5800H" to 5 and
\* "Celeron N4000" to 0.
C3_Examples ==
    (pc = "ret" /\ data \in ExampleCpus) => ret.val = ExampleGen(data)

\* C3, the five examples the code agrees with
C3_OtherExamples ==
    (pc = "ret" /\ data \in ExampleCpus \ {"i7-1185G7"}) => ret.val = ExampleGen(data)

-----------------------------------------------------------------------------
(* SpecParsers: each field parser applied to a machine whose probes are    *)
(* healthy, empty, failing or malformed.                                   *)

\* a healthy machine booted from a USB stick at /dev/sdb
BaseEnv ==
    [serial |-> Text("5CG1234XYZ\n"),
     product |-> Text("Latitude 5400\n"),
     cpuinfo |-> Text("processor\t: 0\nmodel name\t: Intel(R) Core(TM) i7-8565U CPU @ 1.80GHz\nprocessor\t: 1\nmodel name\t: Intel(R) Core(TM) i7-8565U CPU @ 1.80GHz\n"),
     meminfo |-> Text("MemTotal:       16303428 kB\nMemFree:         1200000 kB\n"),
     dmi_memory |-> Text("Memory Device\n\tSize: 8 GB\n\tType: DDR4\n\tType Detail: Synchronous\n"),
     lspci |-> Text("00:02.0 VGA compatible controller: Intel Corporation UHD Graphics 620\n"),
     xrandr |-> Text("Screen 0: minimum 320 x 200\neDP-1 connected primary\n   1920x1080     60.00*+\n   1280x720      60.00\n"),
     upower |-> Text("  native-path: BAT0\n    energy-full:         41.76 Wh\n    energy-full-design:  50.12 Wh\n"),
     mounts |-> Text("/dev/sdb1 /run/archiso/bootmnt vfat rw 0 0\n"),
     lsblk_part |-> Text("/dev/sdb1 1 part\n"),
     lsblk_disks |-> Text("/dev/sdb disk 1\n/dev/nvme0n1 disk 0\n"),
     size |-> Text("512110190592\n"),
     smart |-> Text("SMART overall-health self-assessment test result: PASSED\n"),
     drm_exists |-> TRUE,
     drm_modes |-> <<Text("1920x1080\n1280x720\n")>>,
     nvme_exists |-> TRUE,
     sda_exists |-> FALSE]

\* a machine on which every probe fails and no device exists
EmptyEnv ==
    [serial |-> Failed, product |-> Failed, cpuinfo |-> Failed, meminfo |-> Failed,
     dmi_memory |-> Failed, lspci |-> Failed, xrandr |-> Failed, upower |-> Failed,
     mounts |-> Failed, lsblk_part |-> Failed, lsblk_disks |-> Failed,
     size |-> Failed, smart |-> Failed, drm_exists |-> FALSE, drm_modes |-> <<>>,
     nvme_exists |-> FALSE, sda_exists |-> FALSE]

\* the machines: the healthy one with one probe (or one pair of probes)
\* failing, empty or malformed
InitParsers ==
    /\ pc = "call"
    /\ env \in
          {BaseEnv, EmptyEnv}
          \cup {[BaseEnv EXCEPT !.cpuinfo = t] : t \in
                  {Failed, Text(""), Text("model name"),
                   Text("model name Intel i5\nprocessor : 0"),
                   Text("processor\t: 0\nprocessor\t: 1"), Text("model name\t:"),
                   Text("model name : Intel(R) Core(TM) i7-1185G7 @ 3.00GHz"),
                   Text("model name : AMD Ryzen 7 5800H with Radeon Graphics"),
                   Text("processor : 0\fprocessor : 1\r\nmodel name : X"),
                   Text("garbage\n\n:::")}}
          \cup {[BaseEnv EXCEPT !.meminfo = t] : t \in
                  {Failed, Text(""), Text("MemTotal:"), Text("MemTotal: unknown kB"),
                   Text("MemFree: 12 kB"), Text("MemTotal: 0 kB"),
                   Text("MemTotal: 8388608 kB"), Text("MemTotal 524288kB 99")}}
          \cup {[BaseEnv EXCEPT !.dmi_memory = t] : t \in
                  {Failed, Text(""), Text("Type: Unknown"), Text("DDR4"), Text("Type: DDR"),
                   Text("Error Correction Type: None\n\tType: LPDDR5\n"), Text("DDR Type:")}}
          \cup {[BaseEnv EXCEPT !.lspci = t] : t \in
                  {Failed, Text(""), Text("NVIDIA"),
                   Text("01:00.0 3D controller: NVIDIA Corporation GA107M"),
                   Text("03:00.0 Display: AMD Radeon RX 6600M"), Text("amd"),
                   Text("radeon:nvidia:"), Text("00:1f.3 Audio device: Intel Corporation")}}
          \cup {[BaseEnv EXCEPT !.xrandr = t, !.drm_exists = FALSE] : t \in
                  {Failed, Text(""), Text("Can't open display"), Text("3840x2160"),
                   Text("12x34"), Text("   2560x1600 60.00\n   1920x1200 60.00"),
                   Text("123456x1080"), Text("800x")}}
          \cup {[BaseEnv EXCEPT !.xrandr = Failed, !.drm_modes = m] : m \in
                  {<<>>, <<Failed>>, <<Text("")>>, <<Text("1366x768")>>,
                   <<Text("junk"), Text("2880x1800\n1440x900")>>}}
          \cup {[BaseEnv EXCEPT !.upower = t] : t \in
                  {Failed, Text(""), Text("energy-full: 1.2.3 Wh\nenergy-full-design: 50 Wh"),
                   Text("energy-full: . Wh"), Text("energy-full:\nenergy-full-design:"),
                   Text("energy-full: 41 Wh"), Text("energy-full-design: 50 Wh"),
                   Text("energy-full: 41 Wh\nenergy-full-design: 0 Wh"),
                   Text("energy-full-design: 50 Wh\nenergy-full: 55.5 Wh"),
                   Text("energy-full-design: abc\nenergy-full: 41 Wh"), Text("no battery")}}
          \cup {[BaseEnv EXCEPT !.size = t, !.smart = h] :
                  t \in {Failed, Text(""), Text("abc"), Text("-5"), Text("0"),
                         Text(" 256060514304 "), Text("1_000_000_000"), Text("12.5")},
                  h \in {Failed, Text(""), Text("PASSED"), Text("result: FAILED!"),
                         Text("passed"), Text("FAILED then PASSED")}}
    /\ save_dir = ""
    /\ data = ""
    /\ ret = NoRet
    /\ ledger = NoLedger
    /\ out = <<>>

\* each action applies one parser: pc moves from "call" to the name of the
\* parser and ret is what it returned or raised
CallCpuInfo ==
    /\ pc = "call"
    /\ pc' = "get_cpu_info"
    /\ ret' = get_cpu_info(env)
    /\ UNCHANGED <<env, save_dir, data, ledger, out>>

CallRamTotal ==
    /\ pc = "call"
    /\ pc' = "get_ram_total_gb"
    /\ ret' = get_ram_total_gb(env)
    /\ UNCHANGED <<env, save_dir, data, ledger, out>>

CallRamType ==
    /\ pc = "call"
    /\ pc' = "get_ram_type"
    /\ ret' = get_ram_type(env)
    /\ UNCHANGED <<env, save_dir, data, ledger, out>>

CallStorageInfo ==
    /\ pc = "call"
    /\ pc' = "get_storage_info"
    /\ ret' = get_storage_info(get_primary_disk(env), env)
    /\ UNCHANGED <<env, save_dir, data, ledger, out>>

CallBatteryHealth ==
    /\ pc = "call"
    /\ pc' = "get_battery_health"
    /\ ret' = get_battery_health(env)
    /\ UNCHANGED <<env, save_dir, data, ledger, out>>

CallDiscreteGpu ==
    /\ pc = "call"
    /\ pc' = "get_discrete_gpu"
    /\ ret' = get_discrete_gpu(env)
    /\ UNCHANGED <<env, save_dir, data, ledger, out>>

CallScreenResolution ==
    /\ pc = "call"
    /\ pc' = "get_screen_resolution"
    /\ ret' = get_screen_resolution(env)
    /\ UNCHANGED <<env, save_dir, data, ledger, out>>

\* parse_cpu_generation is applied to the model get_cpu_info returned
CallCpuGeneration ==
    /\ pc = "call"
    /\ ~get_cpu_info(env).raised
    /\ pc' = "parse_cpu_generation"
    /\ ret' = Ok(parse_cpu_generation(get_cpu_info(env).val[1]))
    /\ UNCHANGED <<env, save_dir, data, ledger, out>>

NextParsers ==
    \/ CallCpuInfo
    \/ CallRamTotal
    \/ CallRamType
    \/ CallStorageInfo
    \/ CallBatteryHealth
    \/ CallDiscreteGpu
    \/ CallScreenResolution
    \/ CallCpuGeneration

SpecParsers == InitParsers /\ [][NextParsers]_vars

\* the documented sentinel of each parser
Sentinel(parser) ==
    CASE parser = "get_cpu_info" -> <<"N/A", 0>>
      [] parser = "get_ram_total_gb" -> 0
      [] parser = "get_ram_type" -> "N/A"
      [] parser = "get_storage_info" -> <<"N/A", 0, "N/A">>
      [] parser = "get_battery_health" -> "N/A"
      [] parser = "get_discrete_gpu" -> "None"
      [] parser = "get_screen_resolution" -> <<"N/A", "N/A">>
      [] parser = "parse_cpu_generation" -> 0

\* C4: for every probe output that is empty or malformed, each field parser
\* returns to its caller without raising, and on a machine whose probes are
\* all empty it returns its documented sentinel.
C4_ParsersNeverRaise ==
    pc # "call" =>
        /\ ~ret.raised
        /\ (env = EmptyEnv => ret.val = Sentinel(pc))

\* C4, the part the code meets: with every probe empty each parser returns
\* its sentinel
C4_EmptySentinels ==
    (pc # "call" /\ env = EmptyEnv) => (~ret.raised /\ ret.val = Sentinel(pc))

-----------------------------------------------------------------------------
(* SpecDisk: find_boot_usb_partition and get_primary_disk applied to block  *)
(* device listings, boot media and device nodes.                            *)

InitDisk ==
    /\ pc = "call"
    /\ env \in
          {[BaseEnv EXCEPT !.mounts = m, !.lsblk_part = r, !.lsblk_disks = l,
                           !.nvme_exists = n, !.sda_exists = a] :
              m \in {Failed,
                     Text("proc /proc proc rw 0 0\n/dev/sdb1 /run/archiso/bootmnt vfat rw 0 0\n"),
                     Text("/dev/sda1 /run/archiso/bootmnt vfat rw 0 0\n"),
                     Text("/dev/nvme0n1p2 /cdrom iso9660 ro 0 0\n"),
                     Text("/dev/mmcblk1p1 /live/image vfat rw 0 0\n"),
                     Text("tmpfs /run tmpfs rw 0 0\n/dev/loop0 /run/archiso/sfs squashfs ro 0 0\n")},
              r \in {Failed, Text("/dev/sda1 1 part\n/dev/sda2 1 part\n"),
                     Text("/dev/sdc1 1 part\n")},
              l \in {Failed,
                     Text("/dev/sda disk 0\n/dev/sdb disk 1\n"),
                     Text("/dev/sdb disk 1\n/dev/nvme0n1 disk 0\n/dev/sda disk 0\n"),
                     Text("/dev/sda disk 1\n"),
                     Text("/dev/sda disk 1\n/dev/mmcblk0 disk 0\n"),
                     Text("/dev/nvme0n1 disk 0\n"),
                     Text("/dev/sr0 rom 1\n/dev/loop0 loop 0\n"),
                     Text("/dev/sda disk 0\n"),
                     Text("/dev/nvme0n1 disk 1\n/dev/sdb disk 0\n")},
              n \in BOOLEAN, a \in BOOLEAN}
    /\ save_dir = ""
    /\ data = ""
    /\ ret = NoRet
    /\ ledger = NoLedger
    /\ out = <<>>

CallFindBootUsb ==
    /\ pc = "call"
    /\ pc' = "find_boot_usb_partition"
    /\ ret' = Ok(find_boot_usb_partition(env))
    /\ UNCHANGED <<env, save_dir, data, ledger, out>>

CallPrimaryDisk ==
    /\ pc = "call"
    /\ pc' = "get_primary_disk"
    /\ ret' = Ok(get_primary_disk(env))
    /\ UNCHANGED <<env, save_dir, data, ledger, out>>

NextDisk == CallFindBootUsb \/ CallPrimaryDisk

SpecDisk == InitDisk /\ [][NextDisk]_vars

\* the rows <<name, type, removable flag>> of the block-device listing
ListedDevices(e) ==
    LET lines == SplitLines(run(e.lsblk_disks)) IN
    {Words(lines[i]) : i \in {j \in 1..Len(lines) : Len(Words(lines[j])) >= 3}}

\* the device backing the boot medium: the boot partition without its
\* partition-number suffix
BootDevice(e) == StripPartition(find_boot_usb_partition(e))

\* the listed whole disks that are neither removable nor the boot device
EligibleDisks(e) ==
    {row[1] : row \in {r \in ListedDevices(e) :
                          r[2] = "disk" /\ r[3] = "0" /\ r[1] # BootDevice(e)}}

\* C5: get_primary_disk never returns the device backing the boot medium and
\* never returns a device flagged removable; when no eligible whole disk is
\* listed it returns /dev/nvme0n1 if present, else /dev/sda if present, else "".
C5_NeverBootOrRemovable ==
    pc = "get_primary_disk" =>
        /\ (find_boot_usb_partition(env) # "" => ret.val # BootDevice(env))
        /\ ~\E row \in ListedDevices(env) : row[1] = ret.val /\ row[3] = "1"
        /\ (EligibleDisks(env) = {} =>
               ret.val = (IF env.nvme_exists THEN "/dev/nvme0n1"
                          ELSE IF env.sda_exists THEN "/dev/sda" ELSE ""))

\* C5, the part the code meets: a listed eligible disk is returned when there
\* is one, and the fallback order is nvme0n1, sda, ""
C5_EligibleOrFallback ==
    pc = "get_primary_disk" =>
        /\ (EligibleDisks(env) # {} => ret.val \in EligibleDisks(env))
        /\ (EligibleDisks(env) = {} =>
               ret.val = (IF env.nvme_exists THEN "/dev/nvme0n1"
                          ELSE IF env.sda_exists THEN "/dev/sda" ELSE ""))

-----------------------------------------------------------------------------
(* SpecLedger: export_to_csv called for one unit after another against a    *)
(* ledger path that does not exist at first.  Each call opens the file      *)
(* anew, as each unit is audited by its own run of the program.             *)

Clock == {"2026-01-05 09:30:00", "2026-01-05 09:47:12"}

InitLedger ==
    /\ pc = "idle"
    /\ env = NoEnv
    /\ save_dir = "/mnt/usb_data"
    /\ data = <<>>
    /\ ret = NoRet
    /\ ledger = NoLedger
    /\ out = <<>>

\* one more unit: export_to_csv(data, save_dir) at the time now; out records
\* the arguments of the call.  The records are as main builds them, one with
\* fields to quote, one with keys missing.
ExportUnit ==
    /\ Len(out) < MaxUnits
    /\ \E d \in
          {[service_tag |-> "5CG1234XYZ", model |-> "Latitude 5400",
            cpu |-> "Intel(R) Core(TM) i7-8565U CPU @ 1.80GHz", cores |-> 8,
            ram_gb |-> 16, ram_type |-> "DDR4", storage_type |-> "NVMe",
            storage_gb |-> 512, smart_status |-> "PASSED", battery_pct |-> "83",
            gpu |-> "None", resolution |-> "1920x1080", resolution_class |-> "Standard",
            screen_grade |-> "A", chassis_grade |-> "B", charger |-> "Y",
            recommendation |-> STANDARD_RESALE, _disk |-> "/dev/nvme0n1", _cpu_gen |-> 8],
           [service_tag |-> "N/A", model |-> "ZBook 15, \"G6\"",
            cpu |-> "N/A", cores |-> 0, ram_gb |-> 0, ram_type |-> "N/A",
            storage_type |-> "N/A", storage_gb |-> 0, smart_status |-> "N/A",
            battery_pct |-> "N/A", gpu |-> "NVIDIA Corporation TU117GLM [Quadro T1000]",
            resolution |-> "N/A", resolution_class |-> "N/A",
            screen_grade |-> "C", chassis_grade |-> "C", charger |-> "N",
            recommendation |-> PARTS_REPAIR, _disk |-> "", _cpu_gen |-> 0],
           [service_tag |-> "ABC123", storage_gb |-> 256, screen_grade |-> "B"]},
          now \in Clock :
         /\ data' = d
         /\ ledger' = export_to_csv(d, ledger, now)
         /\ out' = Append(out, [kind |-> "export_to_csv", arg |-> <<d, now>>])
    /\ pc' = "exported"
    /\ UNCHANGED <<env, save_dir, ret>>

SpecLedger == InitLedger /\ [][ExportUnit]_vars

\* the line of the i-th call
LineOfCall(i) == CsvLine(RowOf(out[i].arg[1], out[i].arg[2]))

\* C6: from a ledger path that does not exist, after any number of
\* export_to_csv calls (however split into runs) the file holds exactly one
\* header line, first, then one data row per call in call order; the header is
\* written iff the file did not exist when the call opened it, and no call
\* rewrites or removes a line written before.
C6_OneHeaderThenRows ==
    /\ [](IF out = <<>> THEN ~ledger.exists
          ELSE /\ ledger.exists
               /\ Len(ledger.rows) = 1 + Len(out)
               /\ ledger.rows[1] = CsvLine(CSV_HEADERS)
               /\ \A i \in 1..Len(out) :
                     /\ ledger.rows[i + 1] = LineOfCall(i)
                     /\ ledger.rows[i + 1] # CsvLine(CSV_HEADERS))
    /\ [][/\ SubSeq(ledger'.rows, 1, Len(ledger.rows)) = ledger.rows
          /\ (~ledger.exists <=>
                Len(ledger'.rows) = Len(ledger.rows) + 2
                /\ ledger'.rows[Len(ledger.rows) + 1] = CsvLine(CSV_HEADERS))
          /\ (ledger.exists <=> Len(ledger'.rows) = Len(ledger.rows) + 1)]_vars

\* three units exported after the one that created the file
C6_Witness ==
    /\ Len(out) >= 4
    /\ Len(ledger.rows) = 1 + Len(out)
    /\ \E i, j \in 1..Len(out) : out[i].arg[1] # out[j].arg[1]

-----------------------------------------------------------------------------
(* SpecMain: one run of main on one machine.  pc is the statement of main   *)
(* about to run; the prompts of run_interactive_grading are positions of    *)
(* their own.  out collects the commands issued against the machine, the    *)
(* lines the operator typed and the export, in order.                       *)

\* an order of main in which the row is exported before it is labelled
ExportBeforeLabel(p) ==
    CASE p = "geteuid" -> "mount_usb_rw"
      [] p = "mount_usb_rw" -> "run_hardware_scan"
      [] p = "run_hardware_scan" -> "display_test"
      [] p = "display_test" -> "prompt_screen"
      [] p = "prompt_screen" -> "prompt_chassis"
      [] p = "prompt_chassis" -> "prompt_charger"
      [] p = "prompt_charger" -> "update"
      [] p = "update" -> "export_to_csv"
      [] p = "export_to_csv" -> "compute_recommendation"
      [] p = "compute_recommendation" -> "print_summary"
      [] p = "print_summary" -> "sync_and_unmount"
      [] p = "sync_and_unmount" -> "offer_wipe"
      [] p = "offer_wipe" -> "pause"
      [] p = "pause" -> "done"

\* an order of main in which the wipe is offered before the row is exported
WipeBeforeExport(p) ==
    CASE p = "geteuid" -> "mount_usb_rw"
      [] p = "mount_usb_rw" -> "run_hardware_scan"
      [] p = "run_hardware_scan" -> "display_test"
      [] p = "display_test" -> "prompt_screen"
      [] p = "prompt_screen" -> "prompt_chassis"
      [] p = "prompt_chassis" -> "prompt_charger"
      [] p = "prompt_charger" -> "update"
      [] p = "update" -> "compute_recommendation"
      [] p = "compute_recommendation" -> "print_summary"
      [] p = "print_summary" -> "offer_wipe"
      [] p = "offer_wipe" -> "export_to_csv"
      [] p = "export_to_csv" -> "sync_and_unmount"
      [] p = "sync_and_unmount" -> "pause"
      [] p = "pause" -> "done"

\* the statement of main that follows statement p
After(p) ==
    CASE p = "geteuid" -> "mount_usb_rw"
      [] p = "mount_usb_rw" -> "run_hardware_scan"
      [] p = "run_hardware_scan" -> "display_test"
      [] p = "display_test" -> "prompt_screen"
      [] p = "prompt_screen" -> "prompt_chassis"
      [] p = "prompt_chassis" -> "prompt_charger"
      [] p = "prompt_charger" -> "update"
      [] p = "update" -> "compute_recommendation"
      [] p = "compute_recommendation" -> "print_summary"
      [] p = "print_summary" -> "export_to_csv"
      [] p = "export_to_csv" -> "sync_and_unmount"
      [] p = "sync_and_unmount" -> "offer_wipe"
      [] p = "offer_wipe" -> "pause"
      [] p = "pause" -> "done"

\* the machines audited
MainEnvs ==
    {BaseEnv,
     EmptyEnv,
     \* no disk is listed and no device node exists, the probes would answer
     [BaseEnv EXCEPT !.lsblk_disks = Text("/dev/sdb disk 1\n"), !.nvme_exists = FALSE],
     \* a SATA machine whose disk fails SMART
     [BaseEnv EXCEPT !.lsblk_disks = Text("/dev/sda disk 0\n/dev/sdb disk 1\n"),
                     !.nvme_exists = FALSE, !.sda_exists = TRUE,
                     !.size = Text("256060514304"),
                     !.smart = Text("SMART overall-health self-assessment test result: FAILED!")],
     \* a discrete gpu and a worn battery
     [BaseEnv EXCEPT !.lspci = Text("01:00.0 3D controller: NVIDIA Corporation GA107M [GeForce RTX 3050 Mobile]"),
                     !.upower = Text("energy-full: 21.3 Wh\nenergy-full-design: 50 Wh")],
     \* a worn battery, an old cpu
     [BaseEnv EXCEPT !.upower = Text("energy-full: 29.9 Wh\nenergy-full-design: 50 Wh"),
                     !.cpuinfo = Text("processor : 0\nmodel name : Intel(R) Core(TM) i5-6300U CPU @ 2.40GHz")],
     \* no battery
     [BaseEnv EXCEPT !.upower = Failed],
     \* the live medium is /dev/sda and nothing else is listed
     [BaseEnv EXCEPT !.mounts = Text("/dev/sda1 /run/archiso/bootmnt vfat rw 0 0"),
                     !.lsblk_disks = Text("/dev/sda disk 1\n"),
                     !.nvme_exists = FALSE, !.sda_exists = TRUE],
     \* probes whose text the parsers raise on
     [BaseEnv EXCEPT !.cpuinfo = Text("model name")],
     [BaseEnv EXCEPT !.upower = Text("energy-full: 1.2.3 Wh")]}

\* a ledger left by an earlier unit
PriorLedger ==
    [exists |-> TRUE,
     rows |-> <<CsvLine(CSV_HEADERS),
                CsvLine(RowOf([service_tag |-> "ABC123"], "2026-01-05 09:12:40"))>>]

InitMain ==
    /\ pc = "geteuid"
    /\ env \in MainEnvs
    /\ save_dir = ""
    /\ data = <<>>
    /\ ret = NoRet
    /\ ledger \in {NoLedger, PriorLedger}
    /\ out = <<>>

\* if os.geteuid() != 0: sys.exit(1); then clear_screen()
CheckRoot ==
    /\ pc = "geteuid"
    /\ \E euid \in {0, 1000} :
         IF euid # 0
         THEN /\ pc' = "exited"
              /\ out' = Append(out, Event("exit", 1))
         ELSE /\ pc' = After(pc)
              /\ out' = Append(out, Event("system", "clear"))
    /\ UNCHANGED <<env, save_dir, data, ret, ledger>>

\* save_dir = mount_usb_rw(); an exception of os.makedirs ends main
Mounted(mount) ==
    /\ out' = out \o mount.cmds
    /\ IF mount.raised
       THEN /\ pc' = "crashed"
            /\ ret' = Raise(mount.exc)
            /\ save_dir' = save_dir
       ELSE /\ pc' = After(pc)
            /\ ret' = ret
            /\ save_dir' = mount.dir

MountUsb ==
    /\ pc = "mount_usb_rw"
    /\ \E ismount \in BOOLEAN, rc1 \in {0, 8192}, rc2 \in {0, 8192}, rc3 \in {0, 8192},
          makedirs \in {"", "FileExistsError", "PermissionError", "OSError"} :
         Mounted(mount_usb_rw(env, ismount, rc1, makedirs, rc2, rc3))
    /\ UNCHANGED <<env, data, ledger>>

\* data = run_hardware_scan(); an exception of a parser ends main
HardwareScanned(scan) ==
    /\ out' = out \o scan.cmds
    /\ IF scan.raised
       THEN /\ pc' = "crashed"
            /\ ret' = Raise(scan.exc)
            /\ data' = data
       ELSE /\ pc' = After(pc)
            /\ ret' = ret
            /\ data' = scan.val

HardwareScan ==
    /\ pc = "run_hardware_scan"
    /\ HardwareScanned(run_hardware_scan(env))
    /\ UNCHANGED <<env, save_dir, ledger>>

\* display_test(): os.get_terminal_size() raises OSError when the output is no
\* terminal, getch() raises termios.error when the input is none; else a key
\* is read for each colour of COLORS_ANSI and the screen is cleared
DisplayTest ==
    /\ pc = "display_test"
    /\ \E stdout_tty \in BOOLEAN, stdin_tty \in BOOLEAN :
         IF stdout_tty /\ stdin_tty
         THEN /\ out' = out \o <<Event("getch", "White"), Event("getch", "Red"),
                                 Event("getch", "Green"), Event("getch", "Blue"),
                                 Event("getch", "Black"), Event("system", "clear")>>
              /\ pc' = After(pc)
              /\ ret' = ret
         ELSE /\ out' = out
              /\ pc' = "crashed"
              /\ ret' = Raise(IF stdout_tty THEN "error" ELSE "OSError")
    /\ UNCHANGED <<env, save_dir, data, ledger>>

\* run_interactive_grading: the operator types a line at the screen prompt; an
\* invalid answer asks again, and the end of the input raises EOFError, which
\* ends main.  ret.val is the dict of grades chosen so far.
PromptScreen ==
    /\ pc = "prompt_screen"
    /\ \/ \E line \in {"a", "B", " c ", "y", "N", "x", "ß", ""} :
            IF prompt_choice(line, SCREEN_OPTIONS) = ""
            THEN UNCHANGED <<pc, ret, out>>
            ELSE /\ ret' = Ok([screen_grade |-> prompt_choice(line, SCREEN_OPTIONS)])
                 /\ out' = Append(out, Event("input", <<"Rate Screen Condition?", line>>))
                 /\ pc' = After(pc)
       \/ /\ pc' = "crashed"
          /\ ret' = Raise("EOFError")
          /\ out' = out
    /\ UNCHANGED <<env, save_dir, data, ledger>>

PromptChassis ==
    /\ pc = "prompt_chassis"
    /\ \/ \E line \in {"a", "B", " c ", "y", "N", "x", "ß", ""} :
            IF prompt_choice(line, CHASSIS_OPTIONS) = ""
            THEN UNCHANGED <<pc, ret, out>>
            ELSE /\ ret' = Ok(Put(ret.val, "chassis_grade",
                                  prompt_choice(line, CHASSIS_OPTIONS)))
                 /\ out' = Append(out, Event("input", <<"Rate Chassis Condition?", line>>))
                 /\ pc' = After(pc)
       \/ /\ pc' = "crashed"
          /\ ret' = Raise("EOFError")
          /\ out' = out
    /\ UNCHANGED <<env, save_dir, data, ledger>>

PromptCharger ==
    /\ pc = "prompt_charger"
    /\ \/ \E line \in {"a", "B", " c ", "y", "N", "x", "ß", ""} :
            IF prompt_choice(line, CHARGER_OPTIONS) = ""
            THEN UNCHANGED <<pc, ret, out>>
            ELSE /\ ret' = Ok(Put(ret.val, "charger", prompt_choice(line, CHARGER_OPTIONS)))
                 /\ out' = Append(out, Event("input", <<"Charger Included?", line>>))
                 /\ pc' = After(pc)
       \/ /\ pc' = "crashed"
          /\ ret' = Raise("EOFError")
          /\ out' = out
    /\ UNCHANGED <<env, save_dir, data, ledger>>

\* data.update(grades)
UpdateGrades ==
    /\ pc = "update"
    /\ data' = Update(data, ret.val)
    /\ pc' = After(pc)
    /\ UNCHANGED <<env, save_dir, ret, ledger, out>>

\* data["recommendation"] = compute_recommendation(data)
Recommend ==
    /\ pc = "compute_recommendation"
    /\ data' = Put(data, "recommendation", compute_recommendation(data))
    /\ pc' = After(pc)
    /\ UNCHANGED <<env, save_dir, ret, ledger, out>>

\* print_summary(data)
PrintSummary ==
    /\ pc = "print_summary"
    /\ pc' = After(pc)
    /\ UNCHANGED <<env, save_dir, data, ret, ledger, out>>

\* export_to_csv(data, save_dir); an OSError of open(csv_path, "a") is not caught
\* and ends main
Export ==
    /\ pc = "export_to_csv"
    /\ \E now \in Clock, opened \in BOOLEAN :
         IF opened
         THEN /\ ledger' = export_to_csv(data, ledger, now)
              /\ out' = Append(out, Event("export_to_csv", <<data, now>>))
              /\ pc' = After(pc)
              /\ ret' = ret
         ELSE /\ ledger' = ledger
              /\ out' = out
              /\ pc' = "crashed"
              /\ ret' = Raise("OSError")
    /\ UNCHANGED <<env, save_dir, data>>

\* sync_and_unmount()
Sync ==
    /\ pc = "sync_and_unmount"
    /\ out' = out \o sync_and_unmount
    /\ pc' = After(pc)
    /\ UNCHANGED <<env, save_dir, data, ret, ledger>>

\* offer_wipe(data); eof is the prompt at which the input ends (0: at none):
\* input() raises EOFError there, which ends main before any later step
OfferWipe ==
    /\ pc = "offer_wipe"
    /\ \E line1, line2 \in {"y", " Y ", "y", "n", "", "confirm", " CONFIRM", "yes", "ß"} :
         \E eof \in 0..2 :
            /\ eof <= Len(offer_wipe(data, line1, line2))
            /\ IF eof = 0
               THEN /\ out' = out \o offer_wipe(data, line1, line2)
                    /\ pc' = After(pc)
                    /\ ret' = ret
               ELSE /\ out' = out \o SubSeq(offer_wipe(data, line1, line2), 1, eof - 1)
                    /\ pc' = "crashed"
                    /\ ret' = Raise("EOFError")
    /\ UNCHANGED <<env, save_dir, data, ledger>>

\* pause("Press ENTER to exit..."): input() returns, or raises EOFError
Pause ==
    /\ pc = "pause"
    /\ \E eof \in BOOLEAN :
         IF eof THEN pc' = "crashed" /\ ret' = Raise("EOFError")
         ELSE pc' = After(pc) /\ ret' = ret
    /\ UNCHANGED <<env, save_dir, data, ledger, out>>

NextMain ==
    \/ CheckRoot
    \/ MountUsb
    \/ HardwareScan
    \/ DisplayTest
    \/ PromptScreen
    \/ PromptChassis
    \/ PromptCharger
    \/ UpdateGrades
    \/ Recommend
    \/ PrintSummary
    \/ Export
    \/ Sync
    \/ OfferWipe
    \/ Pause

SpecMain == InitMain /\ [][NextMain]_vars

\* a command that wipes a drive
IsWipe(ev) ==
    ev.kind = "system" /\ (StartsWith(ev.arg, "blkdiscard") \/ StartsWith(ev.arg, "nwipe"))

\* the operator's answer to the prompt
IsAnswer(ev, prompt) == ev.kind = "input" /\ ev.arg[1] = prompt

\* the strings this module can hold that, upper-cased, are the word
Spellings(word) ==
    CASE word = "A" -> {"a", "A"}
      [] word = "B" -> {"b", "B"}
      [] word = "C" -> {"c", "C"}
      [] word = "N" -> {"n", "N"}
      [] word = "Y" -> {"y", "Y"}
      [] word = "CONFIRM" ->
            {c \o o \o n \o f \o i \o r \o m :
                c \in {"c", "C"}, o \in {"o", "O"}, n \in {"n", "N"}, f \in {"f", "F"},
                i \in {"i", "I"}, r \in {"r", "R"}, m \in {"m", "M"}}

\* the answer, trimmed and upper-cased, is the word
Answered(ev, word) == Strip(ev.arg[2]) \in Spellings(word)

\* C7: a wipe command (blkdiscard or nwipe) is issued only if the first answer,
\* trimmed and upper-cased, is "Y" and the second is "CONFIRM"; any other
\* answer at either prompt ends the flow with no wipe command issued.
C7_DoubleConfirmation ==
    \A i \in 1..Len(out) :
        /\ IsWipe(out[i]) =>
              /\ i >= 3
              /\ IsAnswer(out[i - 2], "WIPE DRIVE NOW?") /\ Answered(out[i - 2], "Y")
              /\ IsAnswer(out[i - 1], "Type CONFIRM") /\ Answered(out[i - 1], "CONFIRM")
        /\ (IsAnswer(out[i], "WIPE DRIVE NOW?") /\ ~Answered(out[i], "Y")) =>
              i = Len(out)
        /\ (IsAnswer(out[i], "Type CONFIRM") /\ ~Answered(out[i], "CONFIRM")) =>
              i = Len(out)

\* the drive was wiped after "y" and " CONFIRM"
C7_Witness ==
    /\ pc = "done"
    /\ \E i \in 3..Len(out) :
         /\ IsWipe(out[i])
         /\ out[i - 2].arg[2] = "y"
         /\ out[i - 1].arg[2] = " CONFIRM"

\* the number of export_to_csv calls so far
ExportCount == Cardinality({i \in 1..Len(out) : out[i].kind = "export_to_csv"})

\* the grade the operator gave at the prompt is the value of key k of the record
GradeMerged(prompt, k) ==
    /\ k \in DOMAIN data
    /\ data[k] \in {"A", "B", "C", "N", "Y"}
    /\ \E i \in 1..Len(out) : IsAnswer(out[i], prompt) /\ Answered(out[i], data[k])

\* C8: in every complete run of main export_to_csv is called exactly once, and
\* the call happens after compute_recommendation has set the recommendation of
\* the record and after the operator's grades have been merged into it.
C8_ExportOnceAfterLabel ==
    /\ [](ExportCount <= 1)
    /\ [](pc = "done" => ExportCount = 1)
    /\ [][ExportCount' > ExportCount =>
            /\ "recommendation" \in DOMAIN data
            /\ data.recommendation = compute_recommendation(data)
            /\ GradeMerged("Rate Screen Condition?", "screen_grade")
            /\ GradeMerged("Rate Chassis Condition?", "chassis_grade")
            /\ GradeMerged("Charger Included?", "charger")
            /\ out'[Len(out')].arg[1] = data]_vars

\* a run completed, its row appended after the row of an earlier unit
C8_Witness ==
    /\ pc = "done"
    /\ ExportCount = 1
    /\ Len(ledger.rows) = 3
    /\ data.recommendation = BAD_BATTERY_DISCOUNT

\* the machines on which get_primary_disk returns the empty string
NoDiskEnvs == {e \in MainEnvs : get_primary_disk(e) = ""}

\* C9: when get_primary_disk returns the empty string the record carries the
\* empty device identifier, the storage fields are "N/A", 0 and "N/A" with no
\* size or health probe run, and offer_wipe issues no wipe command and asks for
\* no confirmation.
C9_NoDiskNoWipe ==
    (/\ pc \notin {"geteuid", "mount_usb_rw", "run_hardware_scan", "exited", "crashed"}
     /\ env \in NoDiskEnvs) =>
        /\ data._disk = ""
        /\ data.storage_type = "N/A"
        /\ data.storage_gb = 0
        /\ data.smart_status = "N/A"
        /\ \A i \in 1..Len(out) :
              /\ out[i].kind # "run"
              /\ ~IsWipe(out[i])
              /\ ~IsAnswer(out[i], "WIPE DRIVE NOW?")
              /\ ~IsAnswer(out[i], "Type CONFIRM")

\* a run completed on a machine with no disk whose probes would have answered
C9_Witness ==
    /\ pc = "done"
    /\ env \in NoDiskEnvs
    /\ env.size.ok /\ env.smart.ok
    /\ ExportCount = 1


\* the row of the unit was appended to the ledger and the sync issued after it,
\* both before event i
Persisted(i) ==
    \E j \in 1..(i - 1) :
        /\ out[j].kind = "export_to_csv"
        /\ ledger.exists
        /\ ledger.rows[Len(ledger.rows)] = CsvLine(RowOf(out[j].arg[1], out[j].arg[2]))
        /\ \E k \in (j + 1)..(i - 1) : out[k].kind = "system" /\ out[k].arg = "sync"

\* C12: in every run of main a wipe command is issued only after the row of
\* the unit has been appended by export_to_csv and the sync has been issued; a
\* run that ends before export_to_csv (the exit of a non-root user, an
\* exception in an earlier phase or in the export) issues no wipe command.
C12_WipeAfterPersist ==
    /\ \A i \in 1..Len(out) : IsWipe(out[i]) => Persisted(i)
    /\ (pc \in {"exited", "crashed"} /\ ExportCount = 0) =>
          \A i \in 1..Len(out) : ~IsWipe(out[i])

\* an nvme disk was discarded in a run whose row follows that of an earlier unit
C12_Witness ==
    /\ Len(ledger.rows) = 3
    /\ \E i \in 1..Len(out) : IsWipe(out[i]) /\ StartsWith(out[i].arg, "blkdiscard")
-----------------------------------------------------------------------------
(* SpecBattery: get_battery_health applied to upower reports.  data is the  *)
(* reading <<energy-full, energy-full-design, design line first>>, with ""   *)
(* for a value the report does not hold.                                    *)

\* the report of upower for a reading
UpowerReport(r) ==
    LET FullLine(tok) ==
            IF tok = "" THEN "" ELSE "    energy-full:         " \o tok \o " Wh\n"
        DesignLine(tok) ==
            IF tok = "" THEN "" ELSE "    energy-full-design:  " \o tok \o " Wh\n"
    IN
    Text("  native-path:          BAT0\n  battery\n    present:             yes\n"
         \o (IF r[3] THEN DesignLine(r[2]) \o FullLine(r[1])
                     ELSE FullLine(r[1]) \o DesignLine(r[2]))
         \o "    percentage:          97%\n")

InitBattery ==
    /\ pc = "call"
    /\ data \in
          {"", "0", "0.0", "21.3", "23", "29.9", "32.5", "41.76", "50", "55.5"}
          \X {"", "0", "0.00", "40", "47.2", "50", "50.12", "65"}
          \X BOOLEAN
    /\ env = [BaseEnv EXCEPT !.upower = UpowerReport(data)]
    /\ save_dir = ""
    /\ ret = NoRet
    /\ ledger = NoLedger
    /\ out = <<>>

SpecBattery == InitBattery /\ [][CallBatteryHealth]_vars

\* the reading holds both values and design > 0
BothPresent(r) == r[1] # "" /\ r[2] # "" /\ Truthy(PyFloat(r[2]).val)

\* round(full / design * 100) as a decimal string
RoundedRatio(r) ==
    IF Truthy(PyFloat(r[1]).val)
    THEN HealthPct(PyFloat(r[1]).val, PyFloat(r[2]).val).val
    ELSE "0"

\* C10: get_battery_health returns round(full / design * 100) as a decimal
\* string whenever both values are present and design > 0, also when the
\* energy-full value is 0, and "N/A" in every other case.
C10_RoundedRatioOrNA ==
    pc = "get_battery_health" =>
        /\ ~ret.raised
        /\ ret.val = (IF BothPresent(data) THEN RoundedRatio(data) ELSE "N/A")

\* C10, the part the code meets: the same with a nonzero energy-full value
C10_NonzeroFull ==
    (pc = "get_battery_health" /\ (data[1] = "" \/ Truthy(PyFloat(data[1]).val))) =>
        /\ ~ret.raised
        /\ ret.val = (IF BothPresent(data) THEN RoundedRatio(data) ELSE "N/A")

\* the decimal strings of the integers 0..100
PctStrings == {IntStr(k) : k \in 0..100}

\* x <= y for floats x >= 0 and y >= 0, inf included
FloatLeq(x, y) ==
    \/ y.is = "inf"
    \/ x.is = "finite" /\ x.m = <<>>
    \/ /\ x.is = "finite" /\ y.is = "finite" /\ y.m # <<>>
       /\ (x.e < y.e \/ (x.e = y.e /\ BigCmp(x.m, y.m) <= 0))

\* the energy-full value of the reading does not exceed its design value
WithinDesign(r) ==
    r[1] = "" \/ r[2] = "" \/ FloatLeq(PyFloat(r[1]).val, PyFloat(r[2]).val)

\* C11: for every probe output the battery_health_pct produced by
\* get_battery_health is the sentinel "N/A" or an integer within 0..100, also
\* when the reported energy-full value exceeds the energy-full-design value.
C11_PctInRange ==
    pc = "get_battery_health" =>
        /\ ~ret.raised
        /\ ret.val \in PctStrings \cup {"N/A"}

\* C11, the part the code meets: the same when energy-full does not exceed
\* energy-full-design
C11_InRangeWithinDesign ==
    (pc = "get_battery_health" /\ WithinDesign(data)) =>
        /\ ~ret.raised
        /\ ret.val \in PctStrings \cup {"N/A"}

=============================================================================
